---- MODULE Spec2Model ----
(***************************************************************************)
(* deluge-sync: the `sync` command of src/src/deluge_sync/cli.py.          *)
(*                                                                         *)
(* One behaviour is one or more invocations of `sync` against a Deluge     *)
(* daemon.  Durations are integers counted in ticks of 6 minutes (so that  *)
(* min_time * 1.1 is a whole number for every min_time that is a multiple  *)
(* of 10 ticks); sizes (total_wanted) are counted in units of 2^29 bytes   *)
(* (half a GiB), for which Decimal(total_wanted) / _GIBIBYTE is exact.     *)
(* Optional values (T | None) are sequences: <<>> is None, <<v>> is v.     *)
(***************************************************************************)
EXTENDS Integers, Sequences, FiniteSets, TLC

\* ------------------------------------------------------------------ bounds
\* Largest number of torrents the daemon holds when a behaviour starts.
MaxTorrents == 2

\* Largest number of torrents where the retention filter is examined.
MaxGroup == 3

\* Largest number of `sync` invocations in one behaviour.
MaxPasses == 2

\* ------------------------------------------------------------- basic values
None == <<>>

Some(v) == <<v>>

\* Python truthiness of an `int | None`: None and 0 are falsy.
Truthy(o) == o # None /\ o[1] # 0

\* _GIBIBYTE, in size units (2^29 bytes).
GIBIBYTE == 2

\* DEFAULT_SEED_BUFFER = 1.1, as the fraction BufferNum / BufferDen.
BufferNum == 11

BufferDen == 10

\* timedelta(hours=2) of the formula of DEFAULT_RULES, in ticks.
TwoHours == 20

\* ------------------------------------------------------------------- rules
\* TrackerRule(host, priority, min_time, min_formula, name_search,
\*             keep_count, keep_size)
TrackerRule(host, priority, min_time, min_formula, name_search, keep_count, keep_size) ==
  [host |-> host, priority |-> priority, min_time |-> min_time,
   min_formula |-> min_formula, name_search |-> name_search,
   keep_count |-> keep_count, keep_size |-> keep_size]

\* re.Pattern.search: a pattern is modelled by the set of names it matches.
\* "S..E.." stands for (?i)S[0-9][0-9]E[0-9][0-9].
Search(pattern, name) ==
  CASE pattern = "S..E.." -> name \in {"Show.S01E02.mkv", "show.s03e04.mkv"}
    [] pattern = "Pack"   -> name \in {"Show.Complete.Pack"}
    [] OTHER              -> FALSE

\* _parse without the two checks: a formula that is not the linear one
\* yields a zero duration.
parse_unchecked(formula, min, size, num, den) ==
  CASE formula = "linear" ->
         [err |-> "", value |-> ((min * GIBIBYTE + TwoHours * size) * num) \div (GIBIBYTE * den)]
    [] OTHER -> [err |-> "", value |-> 0]

\* _parse: the outcome of evaluating a formatted formula.  A formula is
\* modelled by its kind: "linear" is the formula of DEFAULT_RULES,
\* ({min!r}+(timedelta(hours=2)*{size!r})) * {buffer}; "import" is an
\* expression with a node outside _AST_WHITELIST; "number" evaluates to a
\* value that is not a timedelta.  size is in GiB * GIBIBYTE.
parse(formula, min, size, num, den) ==
  CASE formula = "linear" ->
         [err |-> "", value |-> ((min * GIBIBYTE + TwoHours * size) * num) \div (GIBIBYTE * den)]
    [] formula = "number" -> [err |-> "Formula result must be a timedelta", value |-> 0]
    [] OTHER -> [err |-> "Invalid formula", value |-> 0]

\* TrackerRule.required_seed_time
required_seed_time(rule, torrent, num, den) ==
  IF rule.min_formula = None
    THEN [err |-> "", value |-> (rule.min_time * num) \div den]
    ELSE parse(rule.min_formula[1], rule.min_time, torrent.total_wanted, num, den)

\* ------------------------------------------------------- sequence helpers
\* One step of a stable insertion sort by ascending priority.
RECURSIVE insert_by_priority(_, _)
insert_by_priority(s, r) ==
  IF s = <<>> THEN <<r>>
  ELSE IF r.priority < Head(s).priority THEN <<r>> \o s
       ELSE <<Head(s)>> \o insert_by_priority(Tail(s), r)

\* sorted(tracker_rules, key=lambda r: r.priority): stable, ascending.
RECURSIVE sorted_by_priority(_)
sorted_by_priority(s) ==
  IF s = <<>> THEN <<>>
  ELSE insert_by_priority(sorted_by_priority(SubSeq(s, 1, Len(s) - 1)), s[Len(s)])

\* insert_by_total_wanted without reverse=True: ascending.
RECURSIVE insert_by_total_wanted_ascending(_, _)
insert_by_total_wanted_ascending(s, t) ==
  IF s = <<>> THEN <<t>>
  ELSE IF t.total_wanted < Head(s).total_wanted THEN <<t>> \o s
       ELSE <<Head(s)>> \o insert_by_total_wanted_ascending(Tail(s), t)

\* One step of a stable insertion sort by descending total_wanted.
RECURSIVE insert_by_total_wanted(_, _)
insert_by_total_wanted(s, t) ==
  IF s = <<>> THEN <<t>>
  ELSE IF t.total_wanted > Head(s).total_wanted THEN <<t>> \o s
       ELSE <<Head(s)>> \o insert_by_total_wanted(Tail(s), t)

\* sorted(tracker_torrents, key=lambda x: x.total_wanted, reverse=True):
\* descending, and stable (reverse=True keeps equal elements in order).
RECURSIVE sorted_by_total_wanted(_)
sorted_by_total_wanted(s) ==
  IF s = <<>> THEN <<>>
  ELSE insert_by_total_wanted(sorted_by_total_wanted(SubSeq(s, 1, Len(s) - 1)), s[Len(s)])

\* s[n:] of Python: a negative n counts from the end.
SliceFrom(s, n) ==
  LET start == IF n >= 0 THEN n ELSE IF Len(s) + n > 0 THEN Len(s) + n ELSE 0
  IN SubSeq(s, start + 1, Len(s))

\* The keys of a dict built by appending each element of a list to the list
\* of its key, in insertion order (first appearance).
RECURSIVE Keys(_)
Keys(keys) ==
  IF keys = <<>> THEN <<>>
  ELSE LET rest == Keys(SubSeq(keys, 1, Len(keys) - 1))
           k == keys[Len(keys)]
       IN IF \E i \in 1..Len(rest) : rest[i] = k THEN rest ELSE Append(rest, k)

Range(s) == {s[i] : i \in 1..Len(s)}

\* The elements of s whose index is in idx, in order.
RECURSIVE Select(_, _)
Select(s, idx) ==
  IF s = <<>> THEN <<>>
  ELSE LET init == Select(SubSeq(s, 1, Len(s) - 1), idx)
       IN IF Len(s) \in idx THEN Append(init, s[Len(s)]) ELSE init

\* ---------------------------------------------------------- rule compiler
INVALID_PRIORITY == "Priority must be 1 or greater"

INVALID_KEEP == "Keep count and keep size are mutually exclusive"

INVALID_FORMULA == "Invalid formula"

INVALID_RESULT == "Formula result must be a timedelta"

\* DEFAULT_RULES, min_time in ticks (1 day = 240 ticks).
DEFAULT_RULES ==
  << TrackerRule("avistaz.to", 10, 720, Some("linear"), None, None, None),
     TrackerRule("blutopia.cc", 10, 2400, None, None, None, Some(10440)),
     TrackerRule("exoticaz.to", 10, 720, Some("linear"), None, None, None),
     TrackerRule("flacsfor.me", 10, 1680, None, None, None, None),
     TrackerRule("landof.tv", 1, 240, None, Some("S..E.."), None, None),
     TrackerRule("landof.tv", 10, 1200, None, None, None, None),
     TrackerRule("myanonamouse.net", 10, 720, None, None, None, None),
     TrackerRule("opsfet.ch", 10, 1680, None, None, None, None),
     TrackerRule("seedpool.org", 10, 2400, None, None, None, None),
     TrackerRule("torrentbytes.net", 10, 720, None, None, None, None),
     TrackerRule("torrentleech.org", 10, 2400, None, None, Some(100), None),
     TrackerRule("rptscene.xyz", 10, 240, None, None, None, None) >>

\* The dict host -> list of rules that _get_env_rules and _get_default_rules
\* build from a list of rules, as the list of its keys and the lists.
tracker_rules_of(rule_list, host) ==
  Select(rule_list, {i \in 1..Len(rule_list) : rule_list[i].host = host})

\* _get_default_rules
get_default_rules == DEFAULT_RULES

\* _get_env_rules: None when DELUGE_SYNC_RULES is unset or empty.  env is
\* None or Some(the JSON list of rules).
get_env_rules(env) == env

\* `_get_env_rules(ctx) or _get_default_rules(ctx)`: an empty dict is falsy.
selected_rules(env) ==
  IF get_env_rules(env) = None \/ get_env_rules(env)[1] = <<>>
    THEN get_default_rules
    ELSE get_env_rules(env)[1]

\* for rule in sorted_rules: if rule.keep_count: priority_zero_rule.keep_count = ...
RECURSIVE overlay_keep_count(_, _)
overlay_keep_count(priority_zero_rule, sorted_rules) ==
  IF sorted_rules = <<>> THEN priority_zero_rule
  ELSE overlay_keep_count(
         IF Truthy(Head(sorted_rules).keep_count)
           THEN [priority_zero_rule EXCEPT !.keep_count = Head(sorted_rules).keep_count]
           ELSE priority_zero_rule,
         Tail(sorted_rules))

\* compile_tracker testing the caps with `is not None` instead of truthiness.
compile_tracker_is_not_none(tracker_rules) ==
  LET sorted_rules == sorted_by_priority(tracker_rules)
      priority_zero_rule == overlay_keep_count(sorted_rules[1], sorted_rules)
  IN IF sorted_rules # <<>> /\ sorted_rules[1].priority < 1
       THEN [err |-> INVALID_PRIORITY, chain |-> <<>>]
     ELSE IF Len(sorted_rules) > 1
             /\ (priority_zero_rule.keep_count # None \/ priority_zero_rule.keep_size # None)
       THEN IF priority_zero_rule.keep_count # None /\ priority_zero_rule.keep_size # None
              THEN [err |-> INVALID_KEEP, chain |-> <<>>]
              ELSE [err |-> "", chain |-> <<priority_zero_rule>> \o sorted_rules]
     ELSE [err |-> "", chain |-> sorted_rules]

\* The body of the loop of _compile_rules for one host: the compiled chain,
\* or the error raised.
compile_tracker(tracker_rules) ==
  LET sorted_rules == sorted_by_priority(tracker_rules)
      priority_zero_rule == overlay_keep_count(sorted_rules[1], sorted_rules)
  IN IF sorted_rules # <<>> /\ sorted_rules[1].priority < 1
       THEN [err |-> INVALID_PRIORITY, chain |-> <<>>]
     ELSE IF Len(sorted_rules) > 1
             /\ (Truthy(priority_zero_rule.keep_count) \/ Truthy(priority_zero_rule.keep_size))
       THEN IF Truthy(priority_zero_rule.keep_count) /\ Truthy(priority_zero_rule.keep_size)
              THEN [err |-> INVALID_KEEP, chain |-> <<>>]
              ELSE [err |-> "", chain |-> <<priority_zero_rule>> \o sorted_rules]
     ELSE [err |-> "", chain |-> sorted_rules]

\* _compile_rules leaving out the hosts whose rules raise instead of raising.
compile_rules_partial(env) ==
  LET rule_list == selected_rules(env)
      hosts == Keys([i \in 1..Len(rule_list) |-> rule_list[i].host])
      compiled == [h \in Range(hosts) |-> compile_tracker(tracker_rules_of(rule_list, h))]
  IN [err |-> "",
      rules |-> [h \in {g \in Range(hosts) : compiled[g].err = ""} |-> compiled[h].chain]]

\* _compile_rules: the error of the first host (in dict order) that raises,
\* or the dict host -> compiled chain.
compile_rules(env) ==
  LET rule_list == selected_rules(env)
      hosts == Keys([i \in 1..Len(rule_list) |-> rule_list[i].host])
      compiled == [h \in Range(hosts) |-> compile_tracker(tracker_rules_of(rule_list, h))]
      bad == {i \in 1..Len(hosts) : compiled[hosts[i]].err # ""}
  IN IF bad # {}
       THEN [err |-> compiled[hosts[CHOOSE i \in bad : \A j \in bad : i <= j]].err,
             rules |-> <<>>]
       ELSE [err |-> "", rules |-> [h \in Range(hosts) |-> compiled[h].chain]]

\* rules.get(host, [])
rules_get(rules, host) == IF host \in DOMAIN rules THEN rules[host] ELSE <<>>

\* -------------------------------------------------------- retention filter
\* _torrents_by_tracker: the torrents of one tracker alias, in snapshot order.
torrents_by_tracker(torrents, host) ==
  Select(torrents, {i \in 1..Len(torrents) : torrents[i].tracker_alias = host})

\* The loop of _get_under_size from position index on, total_size being the
\* sum so far (in size units): the first position whose running total is
\* strictly over keep_size GiB, or 0 when there is none.
RECURSIVE under_size_index(_, _, _, _)
under_size_index(torrents, keep_size, index, total_size) ==
  IF index > Len(torrents) THEN 0
  ELSE IF total_size + torrents[index].total_wanted > keep_size * GIBIBYTE THEN index
  ELSE under_size_index(torrents, keep_size, index + 1,
                        total_size + torrents[index].total_wanted)

\* _get_under_size with to_add = torrents[index:].
get_under_size_from_crossing(torrents, keep_size) ==
  LET index == under_size_index(torrents, keep_size, 1, 0)
  IN IF index = 0 THEN None ELSE Some(SliceFrom(torrents, index - 1))

\* _get_under_size: to_add, None when the total never exceeds keep_size.
get_under_size(torrents, keep_size) ==
  LET index == under_size_index(torrents, keep_size, 1, 0)
  IN IF index = 0 THEN None ELSE Some(SliceFrom(torrents, index))

\* keep_count_to_check with the slice starting one torrent too early.
keep_count_to_check_one_early(sorted_torrents, keep_count) ==
  IF Len(sorted_torrents) < keep_count
    THEN <<>>
    ELSE SliceFrom(sorted_torrents, keep_count - 1)

\* The `if rule_zero.keep_count` branch of _filter_out_keep: nothing when
\* count < keep_count, sorted_torrents[keep_count:] otherwise.
keep_count_to_check(sorted_torrents, keep_count) ==
  IF Len(sorted_torrents) < keep_count
    THEN <<>>
    ELSE SliceFrom(sorted_torrents, keep_count)

\* The body of the loop of _filter_out_keep for one tracker: what it adds to
\* to_check.
to_check_of(sorted_torrents, tracker_rules) ==
  IF tracker_rules = <<>> THEN sorted_torrents
  ELSE LET rule_zero == tracker_rules[1]
       IN IF ~Truthy(rule_zero.keep_count) /\ ~Truthy(rule_zero.keep_size)
            THEN sorted_torrents
          ELSE IF Truthy(rule_zero.keep_count)
            THEN keep_count_to_check(sorted_torrents, rule_zero.keep_count[1])
          ELSE LET to_add == get_under_size(sorted_torrents, rule_zero.keep_size[1])
               IN IF to_add # None /\ to_add[1] # <<>> THEN to_add[1] ELSE <<>>

\* _filter_out_keep: the ids of the torrents that may be checked for removal.
filter_out_keep(torrents, rules) ==
  UNION { { t.id : t \in Range(to_check_of(
                              sorted_by_total_wanted(torrents_by_tracker(torrents, host)),
                              rules_get(rules, host))) }
          : host \in {torrents[i].tracker_alias : i \in 1..Len(torrents)} }

\* ------------------------------------------------------ seed-time evaluator
\* check_rules without the test of name_search: no rule is skipped.
RECURSIVE check_rules_name_ignored(_, _, _, _)
check_rules_name_ignored(torrent, rules, num, den) ==
  IF rules = <<>> THEN [err |-> "", value |-> FALSE]
  ELSE LET rule == Head(rules)
           required == required_seed_time(rule, torrent, num, den)
       IN IF required.err # "" THEN [err |-> required.err, value |-> FALSE]
          ELSE IF torrent.seeding_time > required.value THEN [err |-> "", value |-> TRUE]
          ELSE check_rules_name_ignored(torrent, Tail(rules), num, den)

\* The `for rule in rules` loop of _check_torrent: the value returned, or the
\* error required_seed_time raised.
RECURSIVE check_rules(_, _, _, _)
check_rules(torrent, rules, num, den) ==
  IF rules = <<>> THEN [err |-> "", value |-> FALSE]
  ELSE LET rule == Head(rules)
           required == required_seed_time(rule, torrent, num, den)
       IN IF rule.name_search # None /\ ~Search(rule.name_search[1], torrent.name)
            THEN check_rules(torrent, Tail(rules), num, den)
          ELSE IF required.err # "" THEN [err |-> required.err, value |-> FALSE]
          ELSE IF torrent.seeding_time > required.value THEN [err |-> "", value |-> TRUE]
          ELSE check_rules(torrent, Tail(rules), num, den)

\* _check_torrent comparing with >= where there are no rules.
check_torrent_or_equal(torrent, rules, default_seed_time, num, den) ==
  IF rules = <<>>
    THEN [err |-> "", value |-> torrent.seeding_time >= default_seed_time]
    ELSE check_rules(torrent, rules, num, den)

\* _check_torrent
check_torrent(torrent, rules, default_seed_time, num, den) ==
  IF rules = <<>>
    THEN [err |-> "", value |-> torrent.seeding_time > default_seed_time]
    ELSE check_rules(torrent, rules, num, den)

\* ------------------------------------------------------------------ state
VARIABLES
  daemon,            \* the daemon's torrents: id -> Torrent (seeding ones)
  env_rules,         \* DELUGE_SYNC_RULES: None or Some(list of rules)
  default_seed_time, \* sync's parameters, the same at every invocation
  label_remap,       \* tracker alias -> label
  path_map,          \* tracker alias -> path
  remove,
  move,
  relabel,
  dry_run,
  pc,                \* "start", "loop", "remove", "done" or "error"
  rules,             \* the compiled rules: host -> chain
  torrents,          \* the snapshot get_torrents returned, in dict order
  can_remove,        \* the ids _filter_out_keep returned
  index,             \* the position of the loop over torrents.values()
  to_remove,         \* the ids appended for removal, in order
  removing,          \* the position of the loop of _remove_torrents
  calls,             \* the calls made to the daemon in this invocation
  printed,           \* the actions announced by _print in this invocation
  error,             \* the exception that ended the invocation, or ""
  passes,            \* completed invocations of sync
  first,             \* the daemon's torrents when the behaviour started
  succeeded          \* whether every call of the previous invocation succeeded

vars ==
  << daemon, env_rules, default_seed_time, label_remap, path_map, remove, move,
     relabel, dry_run, pc, rules, torrents, can_remove, index, to_remove,
     removing, calls, printed, error, passes, first, succeeded >>

params == << env_rules, default_seed_time, label_remap, path_map, remove, move,
             relabel, dry_run, first >>

\* Torrent: the fields sync reads.
Torrent(id, name, label, tracker_alias, seeding_time, download_location, total_wanted) ==
  [id |-> id, name |-> name, label |-> label, tracker_alias |-> tracker_alias,
   seeding_time |-> seeding_time, download_location |-> download_location,
   total_wanted |-> total_wanted]

\* dict.get(key): None or Some(value).
dict_get(d, key) == IF key \in DOMAIN d THEN Some(d[key]) ELSE None

\* A call made to the daemon and whether it succeeded.
Call(op, id, arg, ok) == [op |-> op, id |-> id, arg |-> arg, ok |-> ok]

\* An action announced with _print ("Changing label of torrent to ...",
\* "Moving torrent", "Removing torrent").
Announce(op, id, arg) == [op |-> op, id |-> id, arg |-> arg]

\* pathlib.Path(value), as the string str() gives back: a trailing slash is
\* dropped.  Paths are modelled by the strings used here.
Path(value) ==
  CASE value = "/new/" -> "/new"
    [] value = "/old/" -> "/old"
    [] OTHER           -> value

\* _convert_to_dict_path keeping the values as they were given.
convert_to_dict_path_as_given(item_map) == item_map

\* _convert_to_dict_path: every value of the map becomes a Path.
convert_to_dict_path(item_map) == [key \in DOMAIN item_map |-> Path(item_map[key])]

\* DelugeClient.get_torrents(state=SEEDING): the daemon's torrents in the
\* order of the daemon's answer (ascending id), download_location parsed
\* into a Path by the Torrent model.
RECURSIVE get_torrents(_, _)
get_torrents(d, ids) ==
  IF ids = {} THEN <<>>
  ELSE LET id == CHOOSE i \in ids : \A j \in ids : i <= j
       IN <<[d[id] EXCEPT !.download_location = Path(@)]>> \o get_torrents(d, ids \ {id})

\* ----------------------------------------------------------------- sync
\* relabel_wanted with the dry_run test moved into the condition of the
\* branch.
relabel_wanted_not_dry(torrent, args) ==
  LET new_label == dict_get(args.label_remap, torrent.tracker_alias)
  IN args.relabel /\ ~args.dry_run /\ new_label # None /\ torrent.label # new_label[1]

\* The condition of the relabel branch: `relabel and (new_label :=
\* label_remap.get(torrent.tracker_alias)) is not None and torrent.label !=
\* new_label`.
relabel_wanted(torrent, args) ==
  LET new_label == dict_get(args.label_remap, torrent.tracker_alias)
  IN args.relabel /\ new_label # None /\ torrent.label # new_label[1]

\* remove_reached without `not changed_label`.
remove_reached_after_relabel(torrent, changed_label, c_can_remove, args) ==
  args.remove /\ torrent.id \in c_can_remove

\* The conditions of the removal branch that come before _check_torrent:
\* `remove and not changed_label and torrent.id in can_remove`.
remove_reached(torrent, changed_label, c_can_remove, args) ==
  args.remove /\ ~changed_label /\ torrent.id \in c_can_remove

\* evaluator_rules leaving out the rule _compile_rules inserted at the front.
evaluator_rules_without_retention(c_rules, raw_rules, torrent) ==
  LET chain == rules_get(c_rules, torrent.tracker_alias)
  IN IF Len(chain) > Len(tracker_rules_of(raw_rules, torrent.tracker_alias))
       THEN Tail(chain) ELSE chain

\* The rules sync hands to _check_torrent for a torrent:
\* rules.get(torrent.tracker_alias, []), the whole compiled chain.  raw_rules
\* is the list of rules the chains were compiled from.
evaluator_rules(c_rules, raw_rules, torrent) ==
  rules_get(c_rules, torrent.tracker_alias)

\* move_wanted without the comparison of the download location.
move_wanted_any_location(torrent, removed, args) ==
  LET expected_path == dict_get(args.path_map, torrent.tracker_alias)
  IN ~removed /\ args.move /\ expected_path # None

\* Whether the move branch is taken: the removal branch was not (it ends
\* with `continue`), and `move and expected_path and
\* torrent.download_location != expected_path`.
move_wanted(torrent, removed, args) ==
  LET expected_path == dict_get(args.path_map, torrent.tracker_alias)
  IN ~removed /\ args.move /\ expected_path # None
     /\ torrent.download_location # expected_path[1]

\* The body of the loop of sync for one torrent.  relabel_ok and move_ok say
\* whether change_label_torrent and move_torrent succeed if they are called.
\* The result: the calls made, the actions announced, the label the torrent
\* object ends with, whether the id is appended to to_remove, and the
\* exception that left the loop ("" if none).
sync_torrent(torrent, c_rules, c_can_remove, args, relabel_ok, move_ok) ==
  LET new_label == dict_get(args.label_remap, torrent.tracker_alias)
      do_relabel == relabel_wanted(torrent, args)
      relabel_calls == IF do_relabel /\ ~args.dry_run
                         THEN <<Call("change_label_torrent", torrent.id, new_label[1], relabel_ok)>>
                         ELSE <<>>
      relabel_printed == IF do_relabel
                           THEN <<Announce("change_label", torrent.id, new_label[1])>>
                           ELSE <<>>
      relabel_raised == do_relabel /\ ~args.dry_run /\ ~relabel_ok
      changed_label == do_relabel
      label == IF do_relabel THEN new_label[1] ELSE torrent.label
      reach_check == remove_reached(torrent, changed_label, c_can_remove, args)
      checked == check_torrent([torrent EXCEPT !.label = label],
                               evaluator_rules(c_rules, args.raw_rules, torrent),
                               args.default_seed_time, BufferNum, BufferDen)
      check_raised == reach_check /\ checked.err # ""
      do_remove == reach_check /\ checked.err = "" /\ checked.value
      expected_path == dict_get(args.path_map, torrent.tracker_alias)
      do_move == move_wanted(torrent, do_remove, args)
      move_calls == IF do_move /\ ~args.dry_run
                      THEN <<Call("move_torrent", torrent.id, expected_path[1], move_ok)>>
                      ELSE <<>>
      move_printed == IF do_move THEN <<Announce("move", torrent.id, expected_path[1])>>
                      ELSE <<>>
      move_raised == do_move /\ ~args.dry_run /\ ~move_ok
  IN IF relabel_raised
       THEN [calls |-> relabel_calls, printed |-> relabel_printed,
             label |-> torrent.label, remove |-> FALSE, raised |-> "change_label_torrent"]
     ELSE IF check_raised
       THEN [calls |-> relabel_calls, printed |-> relabel_printed,
             label |-> label, remove |-> FALSE, raised |-> checked.err]
     ELSE [calls |-> relabel_calls \o move_calls,
           printed |-> relabel_printed \o move_printed,
           label |-> label, remove |-> do_remove,
           raised |-> IF move_raised THEN "move_torrent" ELSE ""]

\* after_torrent with the call of _remove_torrents indented into the loop.
after_torrent_remove_in_loop(raised, i, n, removals) ==
  IF raised # "" THEN "error"
  ELSE IF removals # <<>> THEN "remove"
  ELSE IF i < n THEN "loop"
  ELSE "done"

\* Where sync goes after the body of the loop has run for the torrent at
\* position i of n: an exception leaves sync, the loop goes on to the next
\* torrent, and after the last one _remove_torrents is called (its loop is
\* empty when nothing was appended).
after_torrent(raised, i, n, removals) ==
  IF raised # "" THEN "error"
  ELSE IF i < n THEN "loop"
  ELSE IF removals = <<>> THEN "done"
  ELSE "remove"

\* next_removal over reversed(to_remove).
next_removal_reversed(removals, i) == removals[Len(removals) - i + 1]

\* `for tid in to_remove`: the id of the iteration at position i.
next_removal(removals, i) == removals[i]

\* after_remove without the try/except around remove_torrent.
after_remove_uncaught(ok, i, n) ==
  IF ~ok THEN "error" ELSE IF i < n THEN "remove" ELSE "done"

\* Where _remove_torrents goes after the iteration at position i of n: the
\* exception of remove_torrent is caught, so the loop goes on whatever ok is.
after_remove(ok, i, n) == IF i < n THEN "remove" ELSE "done"

\* The parameters of sync as one record.
Args ==
  [default_seed_time |-> default_seed_time, label_remap |-> label_remap,
   path_map |-> path_map, remove |-> remove, move |-> move, relabel |-> relabel,
   dry_run |-> dry_run, raw_rules |-> selected_rules(env_rules)]

\* The effect on the daemon of the calls that succeeded.
RECURSIVE apply_calls(_, _)
apply_calls(d, cs) ==
  IF cs = <<>> THEN d
  ELSE LET c == Head(cs)
           d1 == IF ~c.ok \/ c.id \notin DOMAIN d THEN d
                 ELSE IF c.op = "change_label_torrent"
                        THEN [d EXCEPT ![c.id].label = c.arg]
                 ELSE IF c.op = "move_torrent"
                        THEN [d EXCEPT ![c.id].download_location = c.arg]
                 ELSE IF c.op = "remove_torrent"
                        THEN [i \in DOMAIN d \ {c.id} |-> d[i]]
                 ELSE d
       IN apply_calls(d1, Tail(cs))

\* sync up to the loop: the rules are compiled, the snapshot is fetched and
\* _filter_out_keep is applied.  fetch_ok says whether get_torrents succeeds.
Sync ==
  /\ pc = "start"
  /\ \E fetch_ok \in BOOLEAN :
       LET compiled == compile_rules(env_rules)
           snapshot == get_torrents(daemon, DOMAIN daemon)
       IN IF compiled.err # ""
            THEN /\ pc' = "error"
                 /\ error' = compiled.err
                 /\ UNCHANGED << rules, torrents, can_remove, calls >>
          ELSE IF ~fetch_ok
            THEN /\ pc' = "error"
                 /\ error' = "get_torrents"
                 /\ rules' = compiled.rules
                 /\ calls' = <<Call("get_torrents", 0, "", FALSE)>>
                 /\ UNCHANGED << torrents, can_remove >>
          ELSE /\ rules' = compiled.rules
               /\ torrents' = snapshot
               /\ calls' = <<Call("get_torrents", 0, "", TRUE)>>
               /\ error' = ""
               /\ IF snapshot = <<>>
                    THEN pc' = "done" /\ UNCHANGED can_remove
                    ELSE /\ pc' = "loop"
                         /\ can_remove' = filter_out_keep(snapshot, compiled.rules)
  /\ index' = 1
  /\ to_remove' = <<>>
  /\ removing' = 1
  /\ printed' = <<>>
  /\ UNCHANGED << daemon, params, passes, succeeded >>

\* One iteration of `for torrent in torrents.values()`; after the last one
\* _remove_torrents is entered.
SyncTorrent ==
  /\ pc = "loop"
  /\ index <= Len(torrents)
  /\ \E relabel_ok, move_ok \in BOOLEAN :
       LET torrent == torrents[index]
           r == sync_torrent(torrent, rules, can_remove, Args, relabel_ok, move_ok)
           removals == IF r.remove THEN Append(to_remove, torrent.id) ELSE to_remove
       IN /\ calls' = calls \o r.calls
          /\ printed' = printed \o r.printed
          /\ torrents' = [torrents EXCEPT ![index].label = r.label]
          /\ daemon' = apply_calls(daemon, r.calls)
          /\ to_remove' = removals
          /\ error' = r.raised
          /\ pc' = after_torrent(r.raised, index, Len(torrents), removals)
  /\ index' = index + 1
  /\ UNCHANGED << params, rules, can_remove, removing, passes, succeeded >>

\* One iteration of the loop of _remove_torrents: a failure of remove_torrent
\* is caught and the loop goes on.
RemoveTorrent ==
  /\ pc = "remove"
  /\ removing <= Len(to_remove)
  /\ \E remove_ok \in BOOLEAN :
       LET tid == next_removal(to_remove, removing)
           made == IF dry_run THEN <<>> ELSE <<Call("remove_torrent", tid, "", remove_ok)>>
       IN /\ printed' = Append(printed, Announce("remove", tid, ""))
          /\ calls' = calls \o made
          /\ daemon' = apply_calls(daemon, made)
          /\ pc' = after_remove(dry_run \/ remove_ok, removing, Len(to_remove))
  /\ removing' = removing + 1
  /\ UNCHANGED << params, rules, torrents, can_remove, index, to_remove, error,
                  passes, succeeded >>

\* Time that may pass between two invocations, in ticks.
Elapsed == {0, 2}

\* sync has returned or raised, and the scheduler invokes it again with the
\* same parameters, after the torrents have seeded for some more time.
Invoke ==
  /\ pc \in {"done", "error"}
  /\ passes + 1 < MaxPasses
  /\ passes' = passes + 1
  /\ succeeded' = \A i \in 1..Len(calls) : calls[i].ok
  /\ pc' = "start"
  /\ \E elapsed \in Elapsed :
       daemon' = [i \in DOMAIN daemon |->
                    [daemon[i] EXCEPT !.seeding_time = daemon[i].seeding_time + elapsed]]
  /\ UNCHANGED << params, rules, torrents, can_remove, index, to_remove,
                  removing, calls, printed, error >>

\* --------------------------------------------------------- initial states
\* The daemons with 1..n torrents whose fields are drawn from the given sets;
\* the torrent at position i has id i.
Daemons(n, names, labels, aliases, seeding_times, locations, sizes) ==
  LET kinds == { Torrent(0, nm, lb, al, st, loc, sz) :
                   nm \in names, lb \in labels, al \in aliases,
                   st \in seeding_times, loc \in locations, sz \in sizes }
  IN { [i \in DOMAIN k |-> [k[i] EXCEPT !.id = i]] :
         k \in UNION { [1..m -> kinds] : m \in 1..n } }

\* What every behaviour starts with, whatever the daemon and the parameters.
InitPass ==
  /\ pc = "start"
  /\ rules = <<>>
  /\ torrents = <<>>
  /\ can_remove = {}
  /\ index = 1
  /\ to_remove = <<>>
  /\ removing = 1
  /\ calls = <<>>
  /\ printed = <<>>
  /\ error = ""
  /\ passes = 0
  /\ first = daemon
  /\ succeeded = TRUE

\* Rule overrides: one tracker with a keep_count of 1.
KeepOneRules ==
  << TrackerRule("a.org", 10, 10, None, None, Some(1), None) >>

\* One invocation of sync: every combination of the flags, torrents of a
\* tracker with rules and of one without, each labelled and placed as the
\* remap tables say or otherwise, and seeding times around the thresholds.
Init ==
  /\ daemon \in Daemons(MaxTorrents, {"Show.S01E02.mkv"}, {"old", "new"},
                        {"a.org", "b.org"}, {10, 11, 12}, {"/old", "/new"}, {1})
  /\ env_rules = Some(KeepOneRules)
  /\ default_seed_time = 10
  /\ label_remap = [h \in {"a.org", "b.org"} |-> "new"]
  /\ path_map = [h \in {"a.org", "b.org"} |-> "/new"]
  /\ remove \in BOOLEAN
  /\ move \in BOOLEAN
  /\ relabel \in BOOLEAN
  /\ dry_run \in BOOLEAN
  /\ InitPass

Next == Sync \/ SyncTorrent \/ RemoveTorrent

Spec == Init /\ [][Next]_vars

\* Rule overrides for one tracker: a single rule with each combination of
\* keep_count and keep_size, and a chain of two rules whose second declares
\* the keep_count.
RetentionRules ==
  { << TrackerRule("a.org", 10, 10, None, None, kc, ks) >> :
      kc \in {None, Some(0), Some(1), Some(2)}, ks \in {None, Some(1), Some(10)} }
  \cup { << TrackerRule("a.org", 1, 10, None, Some("S..E.."), None, None),
            TrackerRule("a.org", 10, 10, None, None, Some(1), None) >> }

\* The retention filter: up to MaxGroup torrents of 0.5, 1 or 6 GiB on two
\* trackers, all of them seeded long enough and labelled and placed as the
\* remap tables say, so that retention alone decides what is removed.
InitRetention ==
  /\ daemon \in Daemons(MaxGroup, {"Show.S01E02.mkv"}, {"new"},
                        {"a.org", "b.org"}, {12}, {"/new"}, {1, 2, 12})
  /\ env_rules \in { Some(r) : r \in RetentionRules }
  /\ default_seed_time = 10
  /\ label_remap = [h \in {"a.org", "b.org"} |-> "new"]
  /\ path_map = [h \in {"a.org", "b.org"} |-> "/new"]
  /\ remove = TRUE
  /\ move = TRUE
  /\ relabel = TRUE
  /\ dry_run = FALSE
  /\ InitPass

SpecRetention == InitRetention /\ [][Next]_vars

\* Rule overrides with a keep_count: on a single rule, and on the second
\* rule of a chain of two.
KeepCountRules ==
  { << TrackerRule("a.org", 10, 10, None, None, Some(n), None) >> : n \in {1, 2} }
  \cup { << TrackerRule("a.org", 1, 10, None, Some("S..E.."), None, None),
            TrackerRule("a.org", 10, 10, None, None, Some(1), None) >> }

\* Repeated invocations: torrents of a tracker with a keep_count, of two
\* sizes, seeded long enough or not yet.
InitPasses ==
  /\ daemon \in Daemons(MaxTorrents, {"Show.S01E02.mkv"}, {"old", "new"},
                        {"a.org"}, {10, 12}, {"/new"}, {1, 2})
  /\ env_rules \in { Some(r) : r \in KeepCountRules }
  /\ default_seed_time = 10
  /\ label_remap = [h \in {"a.org"} |-> "new"]
  /\ path_map = [h \in {"a.org"} |-> "/new"]
  /\ remove \in BOOLEAN
  /\ move = TRUE
  /\ relabel \in BOOLEAN
  /\ dry_run \in BOOLEAN
  /\ InitPass

NextPasses == Next \/ Invoke

SpecPasses == InitPasses /\ [][NextPasses]_vars

\* Rule overrides for the seed-time evaluator: chains of one tracker with
\* name filters, a formula, formulas that fail, and rules given out of
\* priority order.  A min_time of 10 requires 11 ticks with the buffer, the
\* linear formula requires 22 for a torrent of 0.5 GiB.
EvaluatorRules ==
  { << TrackerRule("a.org", 1, 20, None, Some("Pack"), None, None),
       TrackerRule("a.org", 10, 10, None, None, None, None) >>,
    << TrackerRule("a.org", 1, 20, None, Some("S..E.."), None, None),
       TrackerRule("a.org", 10, 10, None, Some("S..E.."), None, None) >>,
    << TrackerRule("a.org", 10, 10, None, None, None, None),
       TrackerRule("a.org", 1, 10, Some("import"), Some("Pack"), None, None) >>,
    << TrackerRule("a.org", 5, 10, Some("number"), None, None, None),
       TrackerRule("a.org", 1, 10, None, None, None, None) >>,
    << TrackerRule("a.org", 1, 10, Some("linear"), Some("S..E.."), None, None),
       TrackerRule("a.org", 2, 10, None, Some("Pack"), None, None) >>,
    << TrackerRule("a.org", 1, 10, None, Some("Pack"), Some(2), None),
       TrackerRule("a.org", 10, 10, Some("number"), None, None, None) >> }

\* The seed-time evaluator: up to MaxGroup torrents of one tracker, named so
\* that a name filter matches or not, seeded for less or more than the rules
\* require, labelled as the remap table says or not, and all to be moved.
InitEvaluator ==
  /\ daemon \in Daemons(MaxGroup, {"Show.S01E02.mkv", "Show.Complete.Pack"},
                        {"old", "new"}, {"a.org"}, {10, 12}, {"/old"}, {1})
  /\ env_rules \in { Some(r) : r \in EvaluatorRules }
  /\ default_seed_time = 10
  /\ label_remap = [h \in {"a.org"} |-> "new"]
  /\ path_map = [h \in {"a.org"} |-> "/new"]
  /\ remove = TRUE
  /\ move = TRUE
  /\ relabel = TRUE
  /\ dry_run = FALSE
  /\ InitPass

SpecEvaluator == InitEvaluator /\ [][Next]_vars

\* What DELUGE_SYNC_RULES may hold for the rule compiler: nothing, an empty
\* list, and lists of rules for a.org (and b.org) with caps on the first or
\* on a later rule, on both, caps of zero, priorities below 1 and equal
\* priorities.
CompilerRules ==
  { None, Some(<<>>),
    Some(<< TrackerRule("a.org", 10, 10, None, None, Some(1), None) >>),
    Some(<< TrackerRule("a.org", 1, 10, None, Some("Pack"), None, None),
            TrackerRule("a.org", 10, 10, None, None, Some(1), None) >>),
    Some(<< TrackerRule("a.org", 10, 10, None, None, None, None),
            TrackerRule("a.org", 1, 10, None, Some("Pack"), None, Some(1)) >>),
    Some(<< TrackerRule("a.org", 1, 10, None, Some("Pack"), None, None),
            TrackerRule("a.org", 10, 10, None, None, None, Some(1)) >>),
    Some(<< TrackerRule("a.org", 1, 10, None, None, None, Some(1)),
            TrackerRule("a.org", 10, 10, None, None, Some(1), None) >>),
    Some(<< TrackerRule("a.org", 1, 10, None, None, Some(0), Some(1)),
            TrackerRule("a.org", 10, 10, None, None, None, None) >>),
    Some(<< TrackerRule("a.org", 1, 10, None, None, None, Some(0)),
            TrackerRule("a.org", 10, 10, None, None, None, None) >>),
    Some(<< TrackerRule("a.org", 0, 10, None, None, None, None) >>),
    Some(<< TrackerRule("a.org", 0, 10, None, None, None, Some(1)),
            TrackerRule("a.org", 10, 10, None, None, Some(1), None) >>),
    Some(<< TrackerRule("a.org", 1, 10, None, None, None, Some(1)),
            TrackerRule("b.org", 0, 10, None, None, None, None),
            TrackerRule("a.org", 10, 10, None, None, Some(1), None) >>),
    Some(<< TrackerRule("b.org", 0, 10, None, None, None, None),
            TrackerRule("a.org", 1, 10, None, None, None, Some(1)),
            TrackerRule("a.org", 10, 10, None, None, Some(1), None) >>),
    Some(<< TrackerRule("a.org", 5, 20, None, None, None, None),
            TrackerRule("a.org", 5, 10, None, None, None, None) >>),
    Some(<< TrackerRule("a.org", 5, 10, None, None, Some(1), None),
            TrackerRule("a.org", 1, 10, None, None, Some(2), None) >>) }

\* The rule compiler: up to MaxTorrents torrents of 0.5 GiB on a tracker the
\* overrides have rules for and on one of DEFAULT_RULES, seeded for longer
\* than the overrides require and for less or more than landof.tv requires,
\* labelled and placed as the remap tables say.
InitCompiler ==
  /\ daemon \in Daemons(MaxTorrents, {"Show.S01E02.mkv"}, {"new"},
                        {"a.org", "landof.tv"}, {12, 300}, {"/new"}, {1})
  /\ env_rules \in CompilerRules
  /\ default_seed_time = 10
  /\ label_remap = [h \in {"a.org", "landof.tv"} |-> "new"]
  /\ path_map = [h \in {"a.org", "landof.tv"} |-> "/new"]
  /\ remove \in BOOLEAN
  /\ move = TRUE
  /\ relabel = TRUE
  /\ dry_run \in BOOLEAN
  /\ InitPass

SpecCompiler == InitCompiler /\ [][Next]_vars

\* Rule overrides for repeated passes: a chain whose first rule fails to
\* evaluate for the torrents its name filter matches, and a single rule.
RepeatedRules ==
  { << TrackerRule("a.org", 1, 10, Some("number"), Some("Pack"), None, None),
       TrackerRule("a.org", 10, 10, None, None, None, None) >>,
    << TrackerRule("a.org", 10, 10, None, None, None, None) >> }

\* Repeated invocations that relabel and move: torrents labelled as the
\* remap table says or not, none of them where the path map says, seeded for
\* less or more than the rules require; the path map is given with a
\* trailing slash.
InitRepeated ==
  /\ daemon \in Daemons(MaxTorrents, {"Show.S01E02.mkv", "Show.Complete.Pack"},
                        {"old", "new"}, {"a.org"}, {10, 12}, {"/old"}, {1})
  /\ env_rules \in { Some(r) : r \in RepeatedRules }
  /\ default_seed_time = 10
  /\ label_remap = [h \in {"a.org"} |-> "new"]
  /\ path_map = convert_to_dict_path([h \in {"a.org"} |-> "/new/"])
  /\ remove \in BOOLEAN
  /\ move = TRUE
  /\ relabel \in BOOLEAN
  /\ dry_run = FALSE
  /\ InitPass

SpecRepeated == InitRepeated /\ [][NextPasses]_vars

\* ------------------------------------------------ sync as a function
\* The loop of sync over the snapshot from position i on, in an invocation
\* in which every call to the daemon succeeds: the actions announced, the
\* ids appended to to_remove and the exception raised ("" if none).
RECURSIVE sync_loop(_, _, _, _, _)
sync_loop(snapshot, i, c_rules, c_can_remove, args) ==
  IF i > Len(snapshot) THEN [printed |-> <<>>, to_remove |-> <<>>, raised |-> ""]
  ELSE LET r == sync_torrent(snapshot[i], c_rules, c_can_remove, args, TRUE, TRUE)
           rest == sync_loop(snapshot, i + 1, c_rules, c_can_remove, args)
       IN IF r.raised # ""
            THEN [printed |-> r.printed, to_remove |-> <<>>, raised |-> r.raised]
            ELSE [printed |-> r.printed \o rest.printed,
                  to_remove |-> (IF r.remove THEN <<snapshot[i].id>> ELSE <<>>) \o rest.to_remove,
                  raised |-> rest.raised]

\* Everything an invocation of sync announces, from the compilation of the
\* rules to the end of _remove_torrents, when every call to the daemon
\* succeeds.
sync_plan(d, env, args) ==
  LET compiled == compile_rules(env)
      snapshot == get_torrents(d, DOMAIN d)
      loop == sync_loop(snapshot, 1, compiled.rules,
                        filter_out_keep(snapshot, compiled.rules), args)
  IN IF compiled.err # "" THEN <<>>
     ELSE IF loop.raised # "" THEN loop.printed
     ELSE loop.printed \o [i \in 1..Len(loop.to_remove) |->
                             Announce("remove", next_removal(loop.to_remove, i), "")]

\* ------------------------------------------------------------ observations
\* The ids for which this invocation announced the action op.
Announced(op) == { printed[i].id : i \in { k \in 1..Len(printed) : printed[k].op = op } }

\* The positions of `calls` holding a call of op.
CallsOf(op) == { i \in 1..Len(calls) : calls[i].op = op }

\* The calls that change the daemon.
Mutations == {"change_label_torrent", "move_torrent", "remove_torrent"}

\* The ids remove_torrent was called with, in the order of the calls.
RemoveCalls == [ i \in 1..Cardinality(CallsOf("remove_torrent")) |->
                 calls[CHOOSE k \in CallsOf("remove_torrent") :
                         Cardinality({ m \in CallsOf("remove_torrent") : m <= k }) = i].id ]

\* The positions of the snapshot whose loop body has run.
Evaluated == { j \in 1..Len(torrents) : j < index }

\* ------------------------------------------------------------------ claims
\* C1: a torrent id for which the pass announces a relabel is never put in
\* the removal list of that pass, and no removal is announced for it.
C1_RelabelExcludesRemoval ==
  \A id \in Announced("change_label") :
    /\ \A j \in 1..Len(to_remove) : to_remove[j] # id
    /\ id \notin Announced("remove")

\* C1, witness: a pass has ended in which a torrent was relabeled although
\* removal was enabled, retention left it eligible and it had seeded longer
\* than its rules require.
C1_Witness ==
  /\ pc = "done"
  /\ remove
  /\ \E j \in 1..Len(torrents) :
       /\ torrents[j].id \in Announced("change_label")
       /\ torrents[j].id \in can_remove
       /\ check_torrent(torrents[j], rules_get(rules, torrents[j].tracker_alias),
                        default_seed_time, BufferNum, BufferDen).value

\* C2, as stated: a torrent relabeled in a pass receives no move action in
\* that pass.
C2_Original ==
  \A id \in Announced("change_label") : id \notin Announced("move")

\* C2, amended: a relabeled torrent is still evaluated for move: once its
\* loop body has run, a move is announced for it exactly when move is
\* enabled, a path remap exists for its alias and differs from its download
\* location, and the relabel call did not fail.
C2_RelabeledIsMoved ==
  \A j \in Evaluated :
    torrents[j].id \in Announced("change_label") =>
      ( torrents[j].id \in Announced("move")
        <=> /\ move
            /\ torrents[j].tracker_alias \in DOMAIN path_map
            /\ torrents[j].download_location # path_map[torrents[j].tracker_alias]
            /\ ~\E i \in CallsOf("change_label_torrent") :
                  calls[i].id = torrents[j].id /\ ~calls[i].ok )

\* C2, witness: a pass has ended in which one torrent got both a successful
\* relabel call and a successful move call.
C2_Witness ==
  /\ pc = "done"
  /\ \E i \in CallsOf("change_label_torrent") : \E k \in CallsOf("move_torrent") :
       calls[i].id = calls[k].id /\ calls[i].ok /\ calls[k].ok /\ i < k

\* C6, as stated: if A is appended to to_remove before B, the remove call
\* for B is issued before the remove call for A.
C6_Original ==
  \A a, b \in 1..Len(to_remove) :
    a < b =>
      \A i, k \in 1..Len(RemoveCalls) :
        (RemoveCalls[i] = to_remove[a] /\ RemoveCalls[k] = to_remove[b]) => k < i

\* C6, amended: the removal list is executed in discovery order: the remove
\* calls issued so far are, in order, the first ids appended to to_remove
\* (none in a dry run), and to_remove holds ids in snapshot order.
C6_RemovalInDiscoveryOrder ==
  /\ pc \in {"remove", "done"} =>
       RemoveCalls = IF dry_run THEN <<>> ELSE SubSeq(to_remove, 1, removing - 1)
  /\ pc = "done" => removing = Len(to_remove) + 1
  /\ \A a, b \in 1..Len(to_remove) : a < b => to_remove[a] < to_remove[b]

\* C6, witness: two remove calls have been issued.
C6_Witness ==
  /\ pc = "done"
  /\ Len(RemoveCalls) >= 2

\* C8, as stated: no relabel, move or remove call is issued before the
\* decision has been made for every torrent of the snapshot.
C8_Original ==
  (\E i \in 1..Len(calls) : calls[i].op \in Mutations) => index > Len(torrents)

\* C8, amended: only the remove calls wait for the end of the loop: none is
\* issued before every torrent has been evaluated, and every remove call
\* comes after every relabel and move call; a relabel or move call is issued
\* inside the loop, as soon as its torrent is evaluated.
C8_OnlyRemovalIsDeferred ==
  /\ CallsOf("remove_torrent") # {} => index > Len(torrents) /\ pc \in {"remove", "done"}
  /\ \A i \in CallsOf("remove_torrent") :
       \A k \in CallsOf("change_label_torrent") \cup CallsOf("move_torrent") : k < i
  /\ ~dry_run =>
       \A j \in Evaluated :
         /\ torrents[j].id \in Announced("change_label")
              => \E i \in CallsOf("change_label_torrent") : calls[i].id = torrents[j].id
         /\ torrents[j].id \in Announced("move")
              => \E i \in CallsOf("move_torrent") : calls[i].id = torrents[j].id

\* C8, witness: a pass is done in which a remove call followed a relabel
\* call and a move call.
C8_Witness ==
  /\ pc = "done"
  /\ CallsOf("remove_torrent") # {}
  /\ CallsOf("change_label_torrent") # {}
  /\ CallsOf("move_torrent") # {}

\* C9, as stated: a failure of any single remove, move or relabel call does
\* not abort the pass.
C9_Original ==
  (\E i \in 1..Len(calls) : calls[i].op \in Mutations /\ ~calls[i].ok) => pc # "error"

\* C9, amended: only a failure of a remove call is recovered per item: it
\* never ends the pass, and when the pass is done every id of the removal
\* list has had its remove call whatever the outcomes; a failure of a
\* relabel or move call ends the pass at once with that exception: it is the
\* last call made, the torrents after it are not evaluated and no remove
\* call is issued.
C9_OnlyRemovalFailureIsRecovered ==
  /\ (\E i \in CallsOf("remove_torrent") : ~calls[i].ok)
       => pc \in {"remove", "done"}
  /\ (pc = "done" /\ ~dry_run) => RemoveCalls = to_remove
  /\ \A i \in CallsOf("change_label_torrent") \cup CallsOf("move_torrent") :
       ~calls[i].ok =>
         /\ pc = "error"
         /\ error = calls[i].op
         /\ i = Len(calls)
         /\ CallsOf("remove_torrent") = {}
         /\ torrents[index - 1].id = calls[i].id

\* C9, witness: a pass is done in which a remove call failed and a later
\* remove call was still made.
C9_Witness ==
  /\ pc = "done"
  /\ \E i, k \in CallsOf("remove_torrent") : i < k /\ ~calls[i].ok

\* C10: for an evaluated torrent whose tracker alias has no rule chain, with
\* remove enabled and no relabel of it in this pass, the id is in the removal
\* list iff seeding_time > default_seed_time.
C10_DefaultSeedTime ==
  \A j \in Evaluated :
    ( /\ rules_get(rules, torrents[j].tracker_alias) = <<>>
      /\ remove
      /\ torrents[j].id \notin Announced("change_label") )
    => ( (\E k \in 1..Len(to_remove) : to_remove[k] = torrents[j].id)
         <=> torrents[j].seeding_time > default_seed_time )

\* C10, witness: a pass is done in which a torrent of a tracker without rules
\* that had seeded for more than the default (but not for more than the
\* default times the buffer) is in the removal list, and another that had
\* seeded for exactly the default is not, while another tracker has a
\* keep_count.
C10_Witness ==
  /\ pc = "done"
  /\ remove
  /\ \E h \in DOMAIN rules : Truthy(rules[h][1].keep_count)
  /\ \E j, k \in 1..Len(torrents) :
       /\ rules_get(rules, torrents[j].tracker_alias) = <<>>
       /\ rules_get(rules, torrents[k].tracker_alias) = <<>>
       /\ torrents[j].seeding_time = default_seed_time + 1
       /\ torrents[j].seeding_time * BufferDen <= default_seed_time * BufferNum
       /\ torrents[j].id \in Range(to_remove)
       /\ torrents[k].seeding_time = default_seed_time
       /\ torrents[k].id \notin Announced("change_label")
       /\ torrents[k].id \notin Range(to_remove)

\* C7: a dry-run pass announces exactly the relabel, move and remove actions
\* (same torrents, same targets, same order) of a pass without dry_run over
\* the same daemon, rules, remap tables and flags in which every call
\* succeeds, and it makes no call that changes the daemon.
C7_DryRunSamePlan ==
  (dry_run /\ pc = "done") =>
    /\ printed = sync_plan(first, env_rules, [Args EXCEPT !.dry_run = FALSE])
    /\ \A i \in 1..Len(calls) : calls[i].op \notin Mutations
    /\ daemon = first

\* C7, witness: a dry-run pass is done that announced a relabel, a move and
\* a removal.
C7_Witness ==
  /\ dry_run
  /\ pc = "done"
  /\ Announced("change_label") # {}
  /\ Announced("move") # {}
  /\ Announced("remove") # {}

\* The positions of the snapshot whose torrent has tracker alias host.
Group(host) == { j \in 1..Len(torrents) : torrents[j].tracker_alias = host }

\* The positions of the group of host that _filter_out_keep left eligible.
Eligible(host) == { j \in Group(host) : torrents[j].id \in can_remove }

\* The group of host in the order the filter walks it: descending
\* total_wanted, snapshot order among equals.
Walk(host) == sorted_by_total_wanted(torrents_by_tracker(torrents, host))

\* The size of the first n torrents of s, in size units.
RECURSIVE PrefixSize(_, _)
PrefixSize(s, n) == IF n = 0 THEN 0 ELSE PrefixSize(s, n - 1) + s[n].total_wanted

\* The positions of s at which the running total is strictly over keep_size GiB.
Over(s, keep_size) == { n \in 1..Len(s) : PrefixSize(s, n) > keep_size * GIBIBYTE }

\* The trackers of the snapshot whose rule-zero has the size cap alone.
KeepSizeHosts ==
  { h \in DOMAIN rules : /\ Group(h) # {}
                         /\ ~Truthy(rules[h][1].keep_count)
                         /\ Truthy(rules[h][1].keep_size) }

\* The trackers of the snapshot whose rule-zero has a count cap that is in
\* force (a keep_count of 0 beside a keep_size leaves the size cap in force).
KeepCountHosts ==
  { h \in DOMAIN rules : /\ Group(h) # {}
                         /\ rules[h][1].keep_count # None
                         /\ (Truthy(rules[h][1].keep_count) \/ ~Truthy(rules[h][1].keep_size)) }

\* C3, as stated: with keep_size = S the first torrent of the walk that
\* makes the running total strictly greater than S and every torrent after
\* it are eligible, and none is when the total never exceeds S.
C3_Original ==
  pc \in {"loop", "remove", "done"} =>
    \A h \in KeepSizeHosts :
      LET over == Over(Walk(h), rules[h][1].keep_size[1])
          crossing == CHOOSE n \in over : \A m \in over : n <= m
      IN { torrents[j].id : j \in Eligible(h) }
           = IF over = {} THEN {}
             ELSE { Walk(h)[n].id : n \in crossing..Len(Walk(h)) }

\* C3, amended: the torrent that makes the running total strictly greater
\* than S is exempt too: exactly the torrents after it in the walk are
\* eligible, and none is when the total never exceeds S or only the last
\* torrent makes it exceed S.
C3_KeepSizeKeepsCrossing ==
  pc \in {"loop", "remove", "done"} =>
    \A h \in KeepSizeHosts :
      LET over == Over(Walk(h), rules[h][1].keep_size[1])
          crossing == CHOOSE n \in over : \A m \in over : n <= m
      IN { torrents[j].id : j \in Eligible(h) }
           = IF over = {} THEN {}
             ELSE { Walk(h)[n].id : n \in (crossing + 1)..Len(Walk(h)) }

\* C3, witness: the claim's example, a group of 6, 6 and 1 GiB with
\* keep_size = 10: only the third torrent is eligible.
C3_Witness ==
  /\ pc = "loop"
  /\ \E h \in KeepSizeHosts :
       /\ rules[h][1].keep_size = Some(10)
       /\ [n \in 1..Len(Walk(h)) |-> Walk(h)[n].total_wanted] = <<12, 12, 2>>
       /\ { torrents[j].id : j \in Eligible(h) } = { Walk(h)[3].id }

OfTracker(d, host) == { i \in DOMAIN d : d[i].tracker_alias = host }

\* C5: whatever the passes do, the daemon keeps at least min(N, the number
\* it started with) torrents of a tracker whose rule-zero has keep_count = N.
C5_KeepCountAcrossPasses ==
  LET compiled == compile_rules(env_rules).rules
  IN \A h \in DOMAIN compiled :
       compiled[h][1].keep_count # None =>
         LET N == compiled[h][1].keep_count[1]
             had == Cardinality(OfTracker(first, h))
         IN Cardinality(OfTracker(daemon, h)) >= IF N < had THEN N ELSE had

\* C5, witness: after a second pass that removed a torrent the tracker is
\* down to its keep_count, and a torrent that is left has seeded for longer
\* than every rule requires, the default seed time and the buffer included.
C5_Witness ==
  /\ passes >= 1
  /\ pc = "done"
  /\ \E i \in CallsOf("remove_torrent") : calls[i].ok
  /\ \E h \in DOMAIN rules :
       /\ rules[h][1].keep_count # None
       /\ Cardinality(OfTracker(daemon, h)) = rules[h][1].keep_count[1]
       /\ Cardinality(OfTracker(first, h)) > rules[h][1].keep_count[1]
       /\ \E i \in OfTracker(daemon, h) :
            /\ daemon[i].seeding_time > default_seed_time
            /\ \A k \in 1..Len(rules[h]) :
                 daemon[i].seeding_time * BufferDen > rules[h][k].min_time * BufferNum

\* ------------------------------------------------- seed-time evaluator claims
\* The positions of the snapshot whose loop body has reached _check_torrent:
\* removal is enabled, the torrent was not relabeled and retention left it
\* eligible.
Checked ==
  { j \in Evaluated : /\ remove
                      /\ torrents[j].id \notin Announced("change_label")
                      /\ torrents[j].id \in can_remove }

\* Whether the formula of a rule is one whose evaluation fails.
FormulaFails(rule) == rule.min_formula \in {Some("import"), Some("number")}

\* The error a failing formula raises.
FormulaError(rule) ==
  IF rule.min_formula = Some("number") THEN INVALID_RESULT ELSE INVALID_FORMULA

\* The positions of a chain whose rule is not skipped by its name filter for
\* torrent t and either fails to evaluate or is exceeded by t's seeding time.
Deciding(chain, t) ==
  { i \in 1..Len(chain) :
      /\ chain[i].name_search = None \/ Search(chain[i].name_search[1], t.name)
      /\ \/ FormulaFails(chain[i])
         \/ t.seeding_time > required_seed_time(chain[i], t, BufferNum, BufferDen).value }

\* The first of them, 0 if there is none.
FirstDeciding(chain, t) ==
  IF Deciding(chain, t) = {} THEN 0
  ELSE CHOOSE i \in Deciding(chain, t) : \A k \in Deciding(chain, t) : i <= k

\* The pass was ended by the torrent at position j with exception e.
EndedAt(j, e) == pc = "error" /\ index = j + 1 /\ error = e

\* C11: for a torrent checked against a non-empty chain, the chain is in
\* ascending priority order, and the torrent is put in the removal list
\* exactly when the first rule that its name does not skip and that it
\* exceeds comes before every unskipped rule whose formula fails; when no
\* unskipped rule is exceeded it is not put there, whatever the default seed
\* time (which every torrent here exceeds or equals).
C11_FirstExceededRule ==
  \A j \in Checked :
    LET t == torrents[j]
        chain == rules_get(rules, t.tracker_alias)
        k == FirstDeciding(chain, t)
        appended == \E n \in 1..Len(to_remove) : to_remove[n] = t.id
    IN chain # <<>> =>
         /\ \A a, b \in 1..Len(chain) : a < b => chain[a].priority <= chain[b].priority
         /\ IF k = 0
              THEN ~appended /\ ~EndedAt(j, INVALID_FORMULA) /\ ~EndedAt(j, INVALID_RESULT)
            ELSE IF FormulaFails(chain[k])
              THEN ~appended /\ EndedAt(j, FormulaError(chain[k]))
            ELSE appended

\* C11, witness: a pass has ended in which a torrent that has seeded for
\* longer than the default seed time was checked against a chain all of whose
\* rules its name skips, and was not put in the removal list, and another
\* torrent was put there by the second rule of the chain, having seeded for
\* less than the first requires.
C11_Witness ==
  /\ pc = "done"
  /\ \E j \in Checked :
       /\ rules_get(rules, torrents[j].tracker_alias) # <<>>
       /\ \A i \in 1..Len(rules[torrents[j].tracker_alias]) :
            /\ rules[torrents[j].tracker_alias][i].name_search # None
            /\ ~Search(rules[torrents[j].tracker_alias][i].name_search[1], torrents[j].name)
       /\ torrents[j].seeding_time > default_seed_time
       /\ torrents[j].id \notin Range(to_remove)
  /\ \E j \in Checked :
       /\ FirstDeciding(rules_get(rules, torrents[j].tracker_alias), torrents[j]) = 2
       /\ torrents[j].id \in Range(to_remove)

\* C17: once a rule's formula has failed for a checked torrent, the pass has
\* ended with that error, no remove_torrent call is made, and every relabel
\* and move call that succeeded before is still in effect on the daemon.
C17_FormulaFailureStopsRemoval ==
  \A j \in Checked :
    LET t == torrents[j]
        chain == rules_get(rules, t.tracker_alias)
        k == FirstDeciding(chain, t)
    IN (k # 0 /\ FormulaFails(chain[k])) =>
         /\ EndedAt(j, FormulaError(chain[k]))
         /\ CallsOf("remove_torrent") = {}
         /\ Announced("remove") = {}
         /\ \A c \in CallsOf("change_label_torrent") :
              calls[c].ok => daemon[calls[c].id].label = calls[c].arg
         /\ \A c \in CallsOf("move_torrent") :
              calls[c].ok => daemon[calls[c].id].download_location = calls[c].arg

\* C17, witness: a formula failed for the third torrent of the snapshot
\* after the first had been put in the removal list and the second had been
\* relabeled and moved; the first is still on the daemon.
C17_Witness ==
  /\ pc = "error"
  /\ error \in {INVALID_FORMULA, INVALID_RESULT}
  /\ index = 4
  /\ to_remove = <<torrents[1].id>>
  /\ torrents[1].id \in DOMAIN daemon
  /\ \E c \in CallsOf("change_label_torrent") : calls[c].ok /\ calls[c].id = torrents[2].id
  /\ \E c \in CallsOf("move_torrent") : calls[c].ok /\ calls[c].id = torrents[2].id

\* ------------------------------------------------------ rule compiler claims
\* The rules DELUGE_SYNC_RULES holds: none when it is unset.
Override == IF env_rules = None THEN <<>> ELSE env_rules[1]

\* The list of rules the pass compiles.
RawRules == selected_rules(env_rules)

\* The trackers the list has rules for.
RawHosts == { RawRules[i].host : i \in 1..Len(RawRules) }

\* The rules of tracker h, by ascending priority.
RawGroup(h) == sorted_by_priority(tracker_rules_of(RawRules, h))

\* The position at which tracker h first appears in the list.
FirstAt(h) ==
  CHOOSE i \in 1..Len(RawRules) :
    RawRules[i].host = h /\ \A k \in 1..(i - 1) : RawRules[k].host # h

\* The positions of the group of h whose rule declares a non-zero keep_count.
Counting(h) == { i \in 1..Len(RawGroup(h)) : Truthy(RawGroup(h)[i].keep_count) }

\* The keep_count of the clone of the lowest-priority rule of h overlaid
\* with every non-zero keep_count of the group, the last one winning.
SyntheticCount(h) ==
  IF Counting(h) = {} THEN RawGroup(h)[1].keep_count
  ELSE RawGroup(h)[CHOOSE i \in Counting(h) : \A k \in Counting(h) : k <= i].keep_count

\* Its keep_size: that of the lowest-priority rule.
SyntheticSize(h) == RawGroup(h)[1].keep_size

BadPriority(h) == RawGroup(h)[1].priority < 1

\* The compilation has succeeded and the pass has gone on.
Compiled == pc \in {"loop", "remove", "done"} \/ (pc = "error" /\ error = "get_torrents")

\* The compilation has failed.
CompileFailed == pc = "error" /\ error \in {INVALID_PRIORITY, INVALID_KEEP}

\* Nothing was fetched, announced or done on the daemon, and no rule set was
\* kept.
NothingDone ==
  /\ calls = <<>>
  /\ printed = <<>>
  /\ torrents = <<>>
  /\ rules = <<>>
  /\ daemon = first

\* C14, as stated: when a tracker group's lowest priority is below 1 the
\* pass ends with InvalidPriority before anything is fetched or done.
C14_Original ==
  (pc # "start" /\ \E h \in RawHosts : BadPriority(h)) =>
    pc = "error" /\ error = INVALID_PRIORITY /\ NothingDone

\* C14, amended: when a tracker group's lowest priority is below 1 the pass
\* ends with a compilation error before anything is fetched or done:
\* InvalidPriority, unless a tracker that appears earlier in the list has a
\* valid lowest priority and conflicting caps, which ends it with
\* InvalidKeepConflict.
C14_InvalidPriorityEndsPass ==
  (pc # "start" /\ \E h \in RawHosts : BadPriority(h)) =>
    /\ CompileFailed
    /\ NothingDone
    /\ error = INVALID_KEEP <=>
         \E g \in RawHosts :
           /\ ~BadPriority(g)
           /\ Len(RawGroup(g)) > 1
           /\ Truthy(SyntheticCount(g)) /\ Truthy(SyntheticSize(g))
           /\ \A h \in RawHosts : BadPriority(h) => FirstAt(g) < FirstAt(h)

\* C14, witness: a pass with removal enabled, over a daemon holding a
\* torrent of the tracker whose only rule has priority 0, has ended with
\* InvalidPriority.
C14_Witness ==
  /\ pc = "error"
  /\ error = INVALID_PRIORITY
  /\ remove /\ ~dry_run
  /\ \E h \in RawHosts : BadPriority(h) /\ \E i \in DOMAIN daemon : daemon[i].tracker_alias = h

\* C15, as stated: a group of more than one rule ends the compilation with
\* InvalidKeepConflict exactly when the synthetic rule has both keep_count
\* and keep_size non-null; it gets the synthetic rule prepended when exactly
\* one is non-null, and nothing when neither is.
C15_Original ==
  pc # "start" =>
    \A h \in RawHosts :
      Len(RawGroup(h)) > 1 =>
        LET count == SyntheticCount(h) # None
            size == SyntheticSize(h) # None
        IN IF count /\ size THEN pc = "error" /\ error = INVALID_KEEP
           ELSE /\ Compiled
                /\ Len(rules[h]) = Len(RawGroup(h)) + (IF count \/ size THEN 1 ELSE 0)

\* C15, amended: the caps count when they are neither null nor zero, and
\* the lowest priority of the group must be 1 or more.  For the only group
\* of more than one rule, with a valid lowest priority: the compilation ends
\* with InvalidKeepConflict exactly when the synthetic rule has both caps;
\* with exactly one the chain is the synthetic rule followed by the sorted
\* group; with none it is the sorted group.
C15_KeepConflict ==
  pc # "start" =>
    \A h \in RawHosts :
      (Len(RawGroup(h)) > 1 /\ \A g \in RawHosts : ~BadPriority(g)) =>
        LET count == Truthy(SyntheticCount(h))
            size == Truthy(SyntheticSize(h))
        IN IF count /\ size THEN pc = "error" /\ error = INVALID_KEEP /\ NothingDone
           ELSE /\ Compiled
                /\ rules[h] = IF count \/ size
                                THEN <<[RawGroup(h)[1] EXCEPT !.keep_count = SyntheticCount(h)]>>
                                       \o RawGroup(h)
                                ELSE RawGroup(h)

\* C15, witness: a group whose lowest-priority rule has a keep_count of 0
\* and a keep_size of 1 was compiled without error, the synthetic rule
\* prepended.
C15_Witness ==
  /\ Compiled
  /\ \E h \in RawHosts :
       /\ Len(RawGroup(h)) > 1
       /\ SyntheticCount(h) = Some(0)
       /\ SyntheticSize(h) = Some(1)
       /\ Len(rules[h]) = Len(RawGroup(h)) + 1

\* The rules handed to _check_torrent for the torrent at position j.
Handed(j) == evaluator_rules(rules, RawRules, torrents[j])

\* C12, as stated: the rules handed to the evaluator for a checked torrent
\* are in strictly ascending priority order and are the rules of the
\* tracker alone, without the synthetic retention rule.
C12_Original ==
  \A j \in Checked :
    torrents[j].tracker_alias \in RawHosts =>
      /\ \A a, b \in 1..Len(Handed(j)) :
           a < b => Handed(j)[a].priority < Handed(j)[b].priority
      /\ Len(Handed(j)) = Len(RawGroup(torrents[j].tracker_alias))

\* C12, amended: the rules handed to the evaluator for a checked torrent
\* are the whole compiled chain of its tracker, in ascending but not
\* strictly ascending priority order: the sorted rules of the tracker,
\* preceded by the synthetic retention rule when one was prepended, which
\* has the priority, name filter, min_time and formula of the rule after it.
C12_WholeChainIsHanded ==
  \A j \in Checked :
    LET h == torrents[j].tracker_alias
        chain == Handed(j)
    IN h \in RawHosts =>
         /\ chain = rules[h]
         /\ \A a, b \in 1..Len(chain) : a < b => chain[a].priority <= chain[b].priority
         /\ \/ chain = RawGroup(h)
            \/ /\ Tail(chain) = RawGroup(h)
               /\ chain[1] = [chain[2] EXCEPT !.keep_count = chain[1].keep_count]
               /\ Truthy(chain[1].keep_count) \/ Truthy(chain[1].keep_size)

\* C12, witness: a pass has ended in which a torrent was checked against a
\* chain that begins with the synthetic retention rule, and was put in the
\* removal list.
C12_Witness ==
  /\ pc = "done"
  /\ \E j \in Checked :
       /\ torrents[j].tracker_alias \in RawHosts
       /\ Len(Handed(j)) = Len(RawGroup(torrents[j].tracker_alias)) + 1
       /\ Handed(j)[1].priority = Handed(j)[2].priority
       /\ torrents[j].id \in Range(to_remove)

\* The positions of the group of h whose rule declares a keep_count.
DeclaresCount(h) == { i \in 1..Len(RawGroup(h)) : RawGroup(h)[i].keep_count # None }

\* The positions of the group of h whose rule declares a keep_size.
DeclaresSize(h) == { i \in 1..Len(RawGroup(h)) : RawGroup(h)[i].keep_size # None }

\* C13, as stated, for what the retention filter reads: once the rules are
\* compiled, the first rule of the chain of a tracker any of whose rules
\* declares a keep_count or a keep_size carries the cap: the keep_count of
\* the last rule, in ascending priority, that declares one, or else the
\* keep_size declared.
C13_Original ==
  Compiled =>
    \A h \in RawHosts :
      (DeclaresCount(h) # {} \/ DeclaresSize(h) # {}) =>
        /\ DeclaresCount(h) # {} =>
             rules[h][1].keep_count
               = RawGroup(h)[CHOOSE i \in DeclaresCount(h) :
                               \A k \in DeclaresCount(h) : k <= i].keep_count
        /\ DeclaresCount(h) = {} =>
             \E i \in DeclaresSize(h) : rules[h][1].keep_size = RawGroup(h)[i].keep_size

\* C16, as stated: when DELUGE_SYNC_RULES holds a list, the empty list
\* included, the compiled rules have the trackers of that list alone and
\* hold no rule of DEFAULT_RULES; when it is unset they are those of
\* DEFAULT_RULES.
C16_Original ==
  Compiled =>
    IF env_rules # None
      THEN /\ DOMAIN rules = { Override[i].host : i \in 1..Len(Override) }
           /\ \A h \in DOMAIN rules : \A i \in 1..Len(rules[h]) :
                rules[h][i] \notin Range(DEFAULT_RULES)
      ELSE DOMAIN rules = { DEFAULT_RULES[i].host : i \in 1..Len(DEFAULT_RULES) }

\* ---------------------------------------------------- repeated pass claims
\* C18: in an invocation that follows one that was not a dry run and in
\* which every call to the daemon succeeded, with the same remap tables and
\* flags, no relabel and no move is announced and neither
\* change_label_torrent nor move_torrent is called.
C18_RelabelAndMoveIdempotent ==
  (passes >= 1 /\ pc # "start" /\ succeeded /\ ~dry_run) =>
    /\ CallsOf("change_label_torrent") = {}
    /\ CallsOf("move_torrent") = {}
    /\ Announced("change_label") = {}
    /\ Announced("move") = {}

\* C18, witness: a second invocation has ended, over a daemon that still
\* holds a torrent the first invocation relabeled and moved, every call of
\* the first having succeeded.
C18_Witness ==
  /\ passes = 1
  /\ pc = "done"
  /\ succeeded /\ ~dry_run /\ relabel /\ move
  /\ \E i \in DOMAIN daemon :
       /\ first[i].label # daemon[i].label
       /\ daemon[i].label = label_remap[daemon[i].tracker_alias]
       /\ first[i].download_location # daemon[i].download_location
       /\ daemon[i].download_location = path_map[daemon[i].tracker_alias]
====
